---------------------------- MODULE Spec2Model ----------------------------
(* A model of tools/check.py: the script asks `cargo metadata` for the     *)
(* first package's features, builds the list of feature selections to      *)
(* check, and runs `cargo check` once per entry of that list.              *)
(*                                                                         *)
(* The interpreter is a single thread (pc is its position in main, run and *)
(* run_inner).  Child processes are the environment: they are spawned by   *)
(* the script, and exit on their own, with an exit code and (for the       *)
(* metadata query) a captured standard output of the environment's choice. *)
EXTENDS Integers, Sequences, FiniteSets, TLC

(* ------------------------------ bounds -------------------------------- *)

\* The longest feature mapping of a package in the modelled metadata.
MaxKeys == 4

(* --------------------------- the environment -------------------------- *)

\* Feature names a manifest may declare: the two the script reserves and
\* three ordinary ones.
FeatureNames == {"device-selected", "rt", "stm32f030", "stm32f042", "stm32f070"}

\* Exit codes of a child process: success, and cargo's failure code.
ExitCodes == {0, 101}

\* A JSON object keeps the order of its keys (json.loads builds a dict, which
\* keeps insertion order): a mapping is a sequence of entries with distinct
\* keys.
KeyOrders ==
    {s \in UNION {[1..m -> FeatureNames] : m \in 0..MaxKeys} :
        \A i, j \in DOMAIN s : i # j => s[i] # s[j]}

FeatureMappings ==
    {[k \in DOMAIN s |-> [key |-> s[k], val |-> <<>>]] : s \in KeyOrders}

FirstPackages ==
    {[name |-> "stm32f0xx-hal"]}
        \cup {[name |-> "stm32f0xx-hal", features |-> m] : m \in FeatureMappings}

OtherPackage ==
    [name |-> "other", features |-> <<[key |-> "std", val |-> <<>>]>>]

\* The JSON documents the metadata query may print: without "packages", with
\* no package, and with one or two packages, the first with or without
\* "features".
Documents ==
    {[version |-> 1], [version |-> 1, packages |-> <<>>]}
        \cup {[version |-> 1, packages |-> <<p>>] : p \in FirstPackages}
        \cup {[version |-> 1, packages |-> <<p, OtherPackage>>] : p \in FirstPackages}

NoOutput == [kind |-> "none"]

Malformed == [kind |-> "malformed"]

\* What a metadata query that exits 0 may have written to its standard output.
MetadataOutputs == {Malformed} \cup {[kind |-> "json", value |-> d] : d \in Documents}

(* ------------------------------ the state ----------------------------- *)

VARIABLES
    pc,          \* the interpreter's position
    procs,       \* every child process spawned so far, in spawn order
    child,       \* the child the current subprocess call waits for
    stdout,      \* the text check_output returned
    cargo_meta,  \* main's cargo_meta
    crate_info,  \* main's crate_info
    features,    \* main's features: the invocation list
    it,          \* items the map iterator has yielded so far
    mcu,         \* run's parameter
    args,        \* run_inner's parameter
    ret,         \* run_inner's ret
    executed,    \* history: the list positions handed to run, in order
    trace,       \* history: the observable events (print, spawn, exit)
    exitStatus,  \* <<>> while the script runs, then <<its exit status>>
    error        \* the exception that ended the script, "" if none

vars == <<pc, procs, child, stdout, cargo_meta, crate_info, features, it, mcu,
          args, ret, executed, trace, exitStatus, error>>

(* --------------------------- pure functions --------------------------- *)

MetadataCommand == "cargo metadata --no-deps --format-version=1"

\* " ".join(args)
RECURSIVE Join(_)
Join(a) ==
    IF Len(a) = 0 THEN ""
    ELSE IF Len(a) = 1 THEN a[1]
    ELSE a[1] \o " " \o Join(Tail(a))

\* A TLA+ string cannot hold a backquote: BQ stands for that character.
BQ == "'"

\* "Running <BQ>{}<BQ>...".format(" ".join(args))
RunningLine(a) == "Running " \o BQ \o Join(a) \o BQ \o "..."

\* "{} rt".format(x)
Format(x) == x \o " rt"

\* Variant of Selected: the filter forgets the name "rt".
SelectedKeepsRt(x) == x # "device-selected"

\* if x != "device-selected" and x != "rt"
Selected(x) == x # "device-selected" /\ x # "rt"

\* dict.keys(): the keys in insertion order
Keys(m) == [k \in 1..Len(m) |-> m[k].key]

\* [""] + ["{} rt".format(x) for x in ... if ...]
FeatureList(keys) ==
    LET sel == SelectSeq(keys, Selected)
    IN  <<"">> \o [j \in 1..Len(sel) |-> Format(sel[j])]

\* Variant of Lookup: d.get(k, {}) instead of d[k], no KeyError.
LookupOrEmpty(d, k) ==
    IF k \in DOMAIN d THEN [ok |-> TRUE, val |-> d[k]] ELSE [ok |-> TRUE, val |-> <<>>]

\* d[k] on a dict: the value, or KeyError
Lookup(d, k) ==
    IF k \in DOMAIN d THEN [ok |-> TRUE, val |-> d[k]] ELSE [ok |-> FALSE, val |-> <<>>]

\* Variant of RunArgs: the baseline is built with --examples too.
RunArgsAlwaysExamples(m) ==
    IF m = "" THEN <<"cargo", "check", "--examples">>
    ELSE <<"cargo", "check", "--examples", "--features=" \o m>>

\* run's choice of command line
RunArgs(m) ==
    IF m = "" THEN <<"cargo", "check">>
    ELSE <<"cargo", "check", "--examples", "--features=" \o m>>

\* Variant of Advance: the iterator yields the same item again.
AdvanceStuck(i) == i

\* the map iterator moves to the next item of the list
Advance(i) == i + 1

\* Variant of AllContinues: every item is asked for, as with an eager map.
AllContinuesEager(r) == TRUE

\* all() asks its iterator for another item only after a true one
AllContinues(r) == r

\* events of the observable history
PrintEvent(text) == [type |-> "print", proc |-> 0, text |-> text]

StartEvent(p) == [type |-> "start", proc |-> p, text |-> ""]

ExitEvent(p) == [type |-> "exit", proc |-> p, text |-> ""]

NewProc(a, sh) == [args |-> a, shell |-> sh, state |-> "running", rc |-> 0, out |-> NoOutput]

(* ------------------------------ actions ------------------------------- *)

Init ==
    /\ pc = "main"
    /\ procs = <<>>
    /\ child = 0
    /\ stdout = NoOutput
    /\ cargo_meta = <<>>
    /\ crate_info = <<>>
    /\ features = <<>>
    /\ it = 0
    /\ mcu = ""
    /\ args = <<>>
    /\ ret = FALSE
    /\ executed = <<>>
    /\ trace = <<>>
    /\ exitStatus = <<>>
    /\ error = ""

\* An uncaught exception: the interpreter prints a traceback to standard error
\* and exits with status 1.
Raise(err) ==
    /\ pc' = "done"
    /\ error' = err
    /\ exitStatus' = <<1>>

\* subprocess.check_output(...) spawns the metadata query through the shell.
CheckOutputStart ==
    /\ pc = "main"
    /\ procs' = Append(procs, NewProc(<<MetadataCommand>>, TRUE))
    /\ child' = Len(procs) + 1
    /\ trace' = Append(trace, StartEvent(Len(procs) + 1))
    /\ pc' = "check_output"
    /\ UNCHANGED <<stdout, cargo_meta, crate_info, features, it, mcu, args, ret,
                   executed, exitStatus, error>>

\* A running child exits.  A metadata query that exits 0 has written some
\* text; one that fails has written nothing that parses.
ProcExit ==
    \E k \in DOMAIN procs :
        /\ procs[k].state = "running"
        /\ \E rc \in ExitCodes :
             \E out \in (IF ~procs[k].shell THEN {NoOutput}
                         ELSE IF rc = 0 THEN MetadataOutputs ELSE {Malformed}) :
                procs' = [procs EXCEPT ![k] =
                             [@ EXCEPT !.state = "exited", !.rc = rc, !.out = out]]
        /\ trace' = Append(trace, ExitEvent(k))
        /\ UNCHANGED <<pc, child, stdout, cargo_meta, crate_info, features, it, mcu,
                       args, ret, executed, exitStatus, error>>

\* check_output returns the captured text once the child has exited, and
\* raises CalledProcessError when its exit code is not 0.
CheckOutputReturn ==
    /\ pc = "check_output"
    /\ procs[child].state = "exited"
    /\ IF procs[child].rc # 0
       THEN /\ Raise("CalledProcessError")
            /\ UNCHANGED stdout
       ELSE /\ stdout' = procs[child].out
            /\ pc' = "loads"
            /\ UNCHANGED <<error, exitStatus>>
    /\ UNCHANGED <<procs, child, cargo_meta, crate_info, features, it, mcu, args,
                   ret, executed, trace>>

\* json.loads(text)
JsonLoads ==
    /\ pc = "loads"
    /\ IF stdout.kind = "json"
       THEN /\ cargo_meta' = stdout.value
            /\ pc' = "packages"
            /\ UNCHANGED <<error, exitStatus>>
       ELSE /\ Raise("JSONDecodeError")
            /\ UNCHANGED cargo_meta
    /\ UNCHANGED <<procs, child, stdout, crate_info, features, it, mcu, args, ret,
                   executed, trace>>

\* crate_info = cargo_meta["packages"][0]
SelectCrate ==
    /\ pc = "packages"
    /\ LET pk == Lookup(cargo_meta, "packages")
       IN  IF ~pk.ok
           THEN /\ Raise("KeyError")
                /\ UNCHANGED crate_info
           ELSE IF Len(pk.val) = 0
           THEN /\ Raise("IndexError")
                /\ UNCHANGED crate_info
           ELSE /\ crate_info' = pk.val[1]
                /\ pc' = "features"
                /\ UNCHANGED <<error, exitStatus>>
    /\ UNCHANGED <<procs, child, stdout, cargo_meta, features, it, mcu, args, ret,
                   executed, trace>>

\* features = [""] + [... for x in crate_info["features"].keys() if ...]
BuildFeatures ==
    /\ pc = "features"
    /\ LET fs == Lookup(crate_info, "features")
       IN  IF ~fs.ok
           THEN /\ Raise("KeyError")
                /\ UNCHANGED features
           ELSE /\ features' = FeatureList(Keys(fs.val))
                /\ pc' = "all"
                /\ UNCHANGED <<error, exitStatus>>
    /\ UNCHANGED <<procs, child, stdout, cargo_meta, crate_info, it, mcu, args, ret,
                   executed, trace>>

\* all(map(run, features)) asks the map iterator for its next item, which
\* calls run on the next entry of the list.
AllNext ==
    /\ pc = "all"
    /\ it < Len(features)
    /\ mcu' = features[it + 1]
    /\ it' = Advance(it)
    /\ executed' = Append(executed, it + 1)
    /\ pc' = "run"
    /\ UNCHANGED <<procs, child, stdout, cargo_meta, crate_info, features, args, ret,
                   trace, exitStatus, error>>

\* run(mcu) calls run_inner with the command line for the entry.
Run ==
    /\ pc = "run"
    /\ args' = RunArgs(mcu)
    /\ pc' = "print_running"
    /\ UNCHANGED <<procs, child, stdout, cargo_meta, crate_info, features, it, mcu,
                   ret, executed, trace, exitStatus, error>>

\* print("Running <BQ>{}<BQ>...".format(" ".join(args)))
RunInnerPrint ==
    /\ pc = "print_running"
    /\ trace' = Append(trace, PrintEvent(RunningLine(args)))
    /\ pc' = "call"
    /\ UNCHANGED <<procs, child, stdout, cargo_meta, crate_info, features, it, mcu,
                   args, ret, executed, exitStatus, error>>

\* subprocess.call(args) spawns the check.
CallStart ==
    /\ pc = "call"
    /\ procs' = Append(procs, NewProc(args, FALSE))
    /\ child' = Len(procs) + 1
    /\ trace' = Append(trace, StartEvent(Len(procs) + 1))
    /\ pc' = "call_wait"
    /\ UNCHANGED <<stdout, cargo_meta, crate_info, features, it, mcu, args, ret,
                   executed, exitStatus, error>>

\* Variant of CallReturn: the call returns without waiting for the child
\* (a Popen that is never waited for).
CallReturnNoWait ==
    /\ pc = "call_wait"
    /\ ret' = (procs[child].rc = 0)
    /\ pc' = "print_blank"
    /\ UNCHANGED <<procs, child, stdout, cargo_meta, crate_info, features, it, mcu,
                   args, executed, trace, exitStatus, error>>

\* Variant of CallReturn: the call gives up on a child that has not exited
\* and reports a failure (a timeout).
CallReturnTimeout ==
    /\ pc = "call_wait"
    /\ ret' = (procs[child].state = "exited" /\ procs[child].rc = 0)
    /\ pc' = "print_blank"
    /\ UNCHANGED <<procs, child, stdout, cargo_meta, crate_info, features, it, mcu,
                   args, executed, trace, exitStatus, error>>

\* subprocess.call(args) returns the exit code once the child has exited;
\* ret = ... == 0
CallReturn ==
    /\ pc = "call_wait"
    /\ procs[child].state = "exited"
    /\ ret' = (procs[child].rc = 0)
    /\ pc' = "print_blank"
    /\ UNCHANGED <<procs, child, stdout, cargo_meta, crate_info, features, it, mcu,
                   args, executed, trace, exitStatus, error>>

\* Variant of RunInnerBlank: the blank line is printed after a success only.
RunInnerBlankOnlyOnSuccess ==
    /\ pc = "print_blank"
    /\ trace' = IF ret THEN Append(trace, PrintEvent("")) ELSE trace
    /\ pc' = "all_test"
    /\ UNCHANGED <<procs, child, stdout, cargo_meta, crate_info, features, it, mcu,
                   args, ret, executed, exitStatus, error>>

\* print(""); return ret
RunInnerBlank ==
    /\ pc = "print_blank"
    /\ trace' = Append(trace, PrintEvent(""))
    /\ pc' = "all_test"
    /\ UNCHANGED <<procs, child, stdout, cargo_meta, crate_info, features, it, mcu,
                   args, ret, executed, exitStatus, error>>

\* all() looks at the value run returned: a false one ends it with False,
\* and `not False` leads to sys.exit(-1).
AllTest ==
    /\ pc = "all_test"
    /\ pc' = IF AllContinues(ret) THEN "all" ELSE "sys_exit"
    /\ UNCHANGED <<procs, child, stdout, cargo_meta, crate_info, features, it, mcu,
                   args, ret, executed, trace, exitStatus, error>>

\* The iterator is exhausted: all() returns True, main returns and the
\* interpreter exits with status 0.
AllExhausted ==
    /\ pc = "all"
    /\ it >= Len(features)
    /\ exitStatus' = <<0>>
    /\ pc' = "done"
    /\ UNCHANGED <<procs, child, stdout, cargo_meta, crate_info, features, it, mcu,
                   args, ret, executed, trace, error>>

\* sys.exit(-1): the status a parent sees is the low 8 bits.
SysExit ==
    /\ pc = "sys_exit"
    /\ exitStatus' = <<(-1) % 256>>
    /\ pc' = "done"
    /\ UNCHANGED <<procs, child, stdout, cargo_meta, crate_info, features, it, mcu,
                   args, ret, executed, trace, error>>

\* The steps of the script itself.
Script ==
    \/ CheckOutputStart
    \/ CheckOutputReturn
    \/ JsonLoads
    \/ SelectCrate
    \/ BuildFeatures
    \/ AllNext
    \/ Run
    \/ RunInnerPrint
    \/ CallStart
    \/ CallReturn
    \/ RunInnerBlank
    \/ AllTest
    \/ AllExhausted
    \/ SysExit

Next == Script \/ ProcExit

Spec == Init /\ [][Next]_vars

\* The interpreter keeps executing the script; nothing obliges a child
\* process to exit.
FairSpec == Spec /\ WF_vars(Script)

(* ------------------------- derived quantities ------------------------- *)

Reserved == {"device-selected", "rt"}

Done == pc = "done"

\* The child processes that are checks (every child but the metadata query).
Checks == {k \in DOMAIN procs : ~procs[k].shell}

Running == {k \in DOMAIN procs : procs[k].state = "running"}

\* The metadata query has exited 0 with a document whose first package has
\* a feature mapping: acquisition and parsing succeed.
MetadataGood ==
    /\ Len(procs) >= 1
    /\ procs[1].state = "exited"
    /\ procs[1].rc = 0
    /\ procs[1].out.kind = "json"
    /\ "packages" \in DOMAIN procs[1].out.value
    /\ Len(procs[1].out.value.packages) > 0
    /\ "features" \in DOMAIN procs[1].out.value.packages[1]

\* The metadata query has exited and acquisition or parsing fails.
MetadataBad ==
    /\ Len(procs) >= 1
    /\ procs[1].state = "exited"
    /\ ~MetadataGood

\* The keys of the first package's feature mapping, as the query printed them.
PrintedKeys ==
    LET m == procs[1].out.value.packages[1].features
    IN  [k \in 1..Len(m) |-> m[k].key]

Prints == {n \in DOMAIN trace : trace[n].type = "print"}

RunningLines == {n \in Prints : trace[n].text # ""}

BlankLines == {n \in Prints : trace[n].text = ""}

IsOf(n, type, ks) == trace[n].type = type /\ trace[n].proc \in ks

(* ------------------------------- claims -------------------------------- *)

\* C1: in a run whose metadata acquisition and parsing succeed, once the
\* script has ended every entry of the invocation list has been handed to
\* run exactly once, whatever the checks' exit codes were.
C1_EveryEntryExecutedOnce ==
    (Done /\ MetadataGood) =>
        \A j \in DOMAIN features :
            Cardinality({n \in DOMAIN executed : executed[n] = j}) = 1

\* C2: in a run whose metadata acquisition and parsing succeed, the exit
\* status is 0 exactly when every entry of the list exited 0, it is 255 when
\* some check exited nonzero, and a nonzero status is produced only after
\* all entries of the list have run.
C2_ExitStatusAfterAllRan ==
    (Done /\ MetadataGood) =>
        /\ (exitStatus = <<0>>) <=>
              (/\ Cardinality(Checks) = Len(features)
               /\ \A k \in Checks : procs[k].state = "exited" /\ procs[k].rc = 0)
        /\ (\E k \in Checks : procs[k].rc # 0) => exitStatus = <<255>>
        /\ exitStatus # <<0>> => Cardinality(Checks \ Running) = Len(features)

\* C3: the invocation list is the baseline entry followed by "<name> rt" for
\* each key other than the two reserved names, in the order of the printed
\* mapping; its length is 1 + the number of such keys, no entry selects a
\* reserved name, and only reserved keys give the baseline alone.
C3_InvocationList ==
    (MetadataGood /\ features # <<>>) =>
        LET keys == PrintedKeys
            free == {k \in DOMAIN keys : keys[k] \notin Reserved}
            n    == Cardinality(free)
        IN  /\ Len(features) = 1 + n
            /\ features[1] = ""
            /\ \E f \in [1..n -> DOMAIN keys] :
                  /\ \A a, b \in 1..n : a < b => f[a] < f[b]
                  /\ {f[a] : a \in 1..n} = free
                  /\ \A a \in 1..n : features[a + 1] = keys[f[a]] \o " rt"
            /\ \A j \in DOMAIN features :
                  features[j] \notin {r \o " rt" : r \in Reserved}
            /\ (free = {}) => features = <<"">>

C3_Witness ==
    /\ MetadataGood
    /\ PrintedKeys = <<"device-selected", "rt", "stm32f042", "stm32f030">>
    /\ features = <<"", "stm32f042 rt", "stm32f030 rt">>

\* C4: when metadata acquisition or parsing fails, no check is ever spawned,
\* no entry is handed to run, nothing is printed, and the script ends with an
\* exception.
C4_MetadataFailureAborts ==
    MetadataBad =>
        /\ Checks = {}
        /\ executed = <<>>
        /\ Prints = {}
        /\ Done => (error # "" /\ exitStatus = <<1>>)

C4_Witness ==
    /\ MetadataBad
    /\ Done
    /\ procs[1].rc = 0
    /\ procs[1].out.kind = "json"
    /\ "packages" \in DOMAIN procs[1].out.value
    /\ Len(procs[1].out.value.packages) > 0
    /\ error = "KeyError"

\* C5: the "Running" line of an invocation is printed just before its child
\* is spawned, a blank line is printed just after the child has exited, the
\* script prints nothing else, and once it has ended the "Running" lines and
\* the blank lines are as many as the checks executed.
C5_ConsoleOrder ==
    /\ \A n \in DOMAIN trace :
          /\ IsOf(n, "start", Checks) =>
                /\ n > 1
                /\ trace[n - 1] =
                      PrintEvent("Running " \o BQ \o Join(procs[trace[n].proc].args)
                                     \o BQ \o "...")
          /\ IsOf(n, "exit", Checks) =>
                IF n < Len(trace)
                THEN trace[n + 1] = PrintEvent("")
                ELSE pc \in {"call_wait", "print_blank"}
          /\ n \in BlankLines => (n > 1 /\ IsOf(n - 1, "exit", Checks))
          /\ n \in RunningLines =>
                IF n < Len(trace) THEN IsOf(n + 1, "start", Checks) ELSE pc = "call"
    /\ Done =>
          /\ Cardinality(RunningLines) = Cardinality(Checks)
          /\ Cardinality(BlankLines) = Cardinality(Checks)
          /\ Checks \cap Running = {}

C5_Witness ==
    /\ Done
    /\ Len(trace) >= 10
    /\ trace[7].text = "Running " \o BQ \o "cargo check --examples --features=stm32f030 rt"
                          \o BQ \o "..."
    /\ IsOf(8, "start", Checks)
    /\ IsOf(9, "exit", Checks)
    /\ procs[3].rc = 101
    /\ trace[10] = PrintEvent("")

\* C6: the baseline entry is run as `cargo check`, any other entry as
\* `cargo check --examples --features=<entry>`, and run returns true exactly
\* when the child's exit code is 0.
C6_RunCommand ==
    /\ \A k \in Checks :
          /\ k - 1 \in DOMAIN executed
          /\ LET e == features[executed[k - 1]]
                 a == procs[k].args
             IN  IF e = ""
                 THEN a = <<"cargo", "check">>
                 ELSE a = <<"cargo", "check", "--examples", "--features=" \o e>>
    /\ pc \in {"print_blank", "all_test"} =>
          (ret <=> procs[Len(procs)].rc = 0)

C6_Witness ==
    /\ pc = "all_test"
    /\ ~ret
    /\ Len(procs) = 3
    /\ procs[2].args = <<"cargo", "check">>
    /\ procs[3].args = <<"cargo", "check", "--examples", "--features=stm32f070 rt">>
    /\ procs[3].rc = 101

\* C7: at most one child runs at any moment, and a child is spawned only
\* when every child spawned before it has exited; the first child is the
\* metadata query.
C7_Sequential ==
    /\ Cardinality(Running) <= 1
    /\ \A k \in DOMAIN procs : k < Len(procs) => procs[k].state = "exited"
    /\ \A k \in DOMAIN procs : procs[k].shell <=> k = 1

C7_Witness ==
    /\ Len(procs) = 3
    /\ Running = {3}
    /\ procs[2].rc = 0

\* C8: entries are handed to run in list order, each at most once, and an
\* entry is handed to run only after the child of every earlier entry has
\* exited.
C8_ListOrderNoRetry ==
    /\ Len(executed) <= Len(features)
    /\ \A n \in DOMAIN executed : executed[n] = n
    /\ \A n \in DOMAIN executed :
          n < Len(executed) => (n + 1 \in Checks /\ procs[n + 1].state = "exited")

C8_Witness ==
    /\ Done
    /\ executed = <<1, 2, 3>>
    /\ procs[4].rc = 101
    /\ Len(features) = 4

\* C9: if children never stay running forever the script ends with an exit
\* status; while a check is running the script has no exit status, and as
\* long as that check keeps running no further child is spawned and no
\* exit status is produced.
C9_TerminatesWithChildren ==
    /\ ([]<>(Running = {})) => <>(Done /\ Len(exitStatus) = 1)
    /\ [](Checks \cap Running # {} => (~Done /\ exitStatus = <<>>))
    /\ [][(\E k \in Checks \cap Running : procs'[k].state = "running")
              => (Len(procs') = Len(procs) /\ exitStatus' = exitStatus)]_vars

C9_Witness ==
    /\ Len(procs) = 3
    /\ Running = {3}
    /\ procs[2].rc = 0
    /\ pc = "call_wait"
    /\ Len(features) = 4

\* C10: in a run whose metadata acquisition and parsing succeed, the entries
\* executed are a non-empty prefix of the list starting with the baseline,
\* every check but the last one executed exited 0, so at most one check
\* exits nonzero and it is the last.
C10_PrefixUntilFirstFailure ==
    /\ \A n \in DOMAIN executed : executed[n] = n /\ n <= Len(features)
    /\ \A k \in Checks : k < Len(procs) => (procs[k].state = "exited" /\ procs[k].rc = 0)
    /\ Cardinality({k \in Checks : procs[k].rc # 0}) <= 1
    /\ (Done /\ MetadataGood) =>
          /\ Len(executed) >= 1
          /\ features[executed[1]] = ""
          /\ Cardinality(Checks) = Len(executed)

C10_Witness ==
    /\ Done
    /\ Len(features) = 4
    /\ executed = <<1, 2>>
    /\ procs[3].rc = 101
    /\ exitStatus = <<255>>

=============================================================================
